---------------------------- MODULE Spec2Model ----------------------------
(***************************************************************************)
(* Model of streamlit/cookie_support.py: the cookie-support dashboard.     *)
(* The script is re-executed from top to bottom on every widget change;    *)
(* one script run is one step of the model.  The loaded table df is the    *)
(* only value that survives from one run to the next (st.cache).           *)
(***************************************************************************)
EXTENDS Integers, Sequences, FiniteSets, TLC

(***************************************************************************)
(* Bounds of the model.                                                    *)
(***************************************************************************)
MaxRows == 2
MaxPoints == 3

(***************************************************************************)
(* The state: the script's globals after the latest run, the values of     *)
(* the two select boxes, and the exception that ended the run, if any.     *)
(* call is the state of a single call of one function, used by the         *)
(* specifications of the functions on their own.  argsort_ties is the      *)
(* order the build's numpy argsort leaves equal keys in: kind='quicksort'  *)
(* promises none, so it is fixed per build and unknown to the script.      *)
(***************************************************************************)
VARIABLES df, device_option, browser_option, top_browsers, by_day, by_device,
          total_by_device, by_browser, filtered_df, best_fit_cookie_support,
          best_fit_mobile, slice_dice_df, best_fit_slice_dice, exception, call, argsort_ties

vars == <<df, device_option, browser_option, top_browsers, by_day, by_device,
          total_by_device, by_browser, filtered_df, best_fit_cookie_support,
          best_fit_mobile, slice_dice_df, best_fit_slice_dice, exception, call,
          argsort_ties>>

(***************************************************************************)
(* Python's None, and the marker of a script global that a run never       *)
(* assigned because an exception ended the run before its line.            *)
(***************************************************************************)
None == "None"
Unset == "<unset>"

(***************************************************************************)
(* float64 values as fractions <<n, d>> in lowest terms, d >= 0:           *)
(* <<0,0>> is NaN, <<1,0>> is +inf, <<-1,0>> is -inf (IEEE 754 as numpy    *)
(* computes it: division by zero does not raise).  Rounding is not         *)
(* modelled.                                                               *)
(***************************************************************************)
NaN == <<0, 0>>
Inf == <<1, 0>>

Abs(n) == IF n < 0 THEN -n ELSE n

Sign(n) == IF n > 0 THEN 1 ELSE IF n < 0 THEN -1 ELSE 0

RECURSIVE Gcd(_, _)
Gcd(a, b) == IF b = 0 THEN a ELSE Gcd(b, a % b)

Norm(n, d) ==
    IF d = 0 THEN <<Sign(n), 0>>
    ELSE LET g == Gcd(Abs(n), Abs(d))
             s == Sign(d)
         IN  <<(s * n) \div g, (s * d) \div g>>

F(i) == <<i, 1>>

IsNaN(a) == a = NaN

IsFinite(a) == a[2] # 0

FMul(a, b) == Norm(a[1] * b[1], a[2] * b[2])

FAdd(a, b) ==
    IF a[2] = 0 /\ b[2] = 0
    THEN (IF a[1] = b[1] THEN a ELSE NaN)
    ELSE Norm(a[1] * b[2] + b[1] * a[2], a[2] * b[2])

FNeg(a) == <<-a[1], a[2]>>

FSub(a, b) == FAdd(a, FNeg(b))

FRecip(a) ==
    IF a[1] > 0 THEN <<a[2], a[1]>>
    ELSE IF a[1] < 0 THEN <<-a[2], -a[1]>>
    ELSE IF a[2] = 0 THEN NaN ELSE Inf

FDiv(a, b) == FMul(a, FRecip(b))

(***************************************************************************)
(* The names the model draws from, in the order Python compares strings    *)
(* (groupby and pivot_table sort their keys).                              *)
(***************************************************************************)
Lex == <<"Amazon Silk", "Android", "Chrome", "Chrome Mobile", "Edge",
         "Facebook", "Firefox", "IE", "Instagram", "Mobile Safari",
         "Opera", "Safari", "Samsung Internet", "UC Browser", "Yandex",
         "desktop", "mobile", "other", "tablet">>

Rank(s) == CHOOSE i \in 1..Len(Lex) : Lex[i] = s

(* The integers of S in ascending order. *)
RECURSIVE SortInts(_)
SortInts(S) ==
    IF S = {} THEN <<>>
    ELSE LET m == CHOOSE x \in S : \A y \in S : x <= y
         IN  <<m>> \o SortInts(S \ {m})

(* The names of S in ascending (string) order. *)
SortNames(S) ==
    LET ranks == SortInts({Rank(s) : s \in S})
    IN  [i \in 1..Len(ranks) |-> Lex[ranks[i]]]

Range(s) == {s[i] : i \in 1..Len(s)}

(* Series.sum() of an integer column. *)
RECURSIVE SumSeq(_)
SumSeq(s) == IF s = <<>> THEN 0 ELSE Head(s) + SumSeq(Tail(s))

(***************************************************************************)
(* A DataFrame of the CSV's columns: a sequence of rows.                   *)
(***************************************************************************)
Row(d, dev, br, t, c) ==
    [date |-> d, device_type |-> dev, browser_name |-> br,
     traffic |-> t, cookies_supported |-> c]

(* df.traffic, df.cookies_supported: a column as a sequence. *)
TrafficOf(rows) == [i \in 1..Len(rows) |-> rows[i].traffic]

CookiesOf(rows) == [i \in 1..Len(rows) |-> rows[i].cookies_supported]

top_devices == <<"desktop", "mobile", "tablet">>

(* df[mask]: the rows that pass, in order. *)
Where(rows, keep) == SelectSeq(rows, LAMBDA r : r \in keep)

(* df.column.isin(values) *)
IsIn(v, values) == v \in Range(values)

(***************************************************************************)
(* The Aggregator: the module-level views of lines 28-48.                  *)
(***************************************************************************)

(* Mutant of Pct: an empty group reported as 0 percent. *)
PctZeroFilled(part, whole) ==
    IF whole = F(0) THEN F(0) ELSE FMul(FDiv(part, whole), F(100))

(* (part / whole) * 100 on float64 columns. *)
Pct(part, whole) == FMul(FDiv(part, whole), F(100))

DatesOf(rows) == {rows[i].date : i \in 1..Len(rows)}

OnDate(rows, d) == Where(rows, {r \in Range(rows) : r.date = d})

(* Mutant of GroupByDate: the last row of a date instead of the sum. *)
GroupByDateLast(rows) ==
    LET ds == SortInts(DatesOf(rows))
        Last(d) == OnDate(rows, d)[Len(OnDate(rows, d))]
    IN  [i \in 1..Len(ds) |->
            [date |-> ds[i],
             traffic |-> Last(ds[i]).traffic,
             cookies_supported |-> Last(ds[i]).cookies_supported]]

(* df.groupby('date').sum().reset_index(): one row per date, dates ascending. *)
GroupByDate(rows) ==
    LET ds == SortInts(DatesOf(rows))
    IN  [i \in 1..Len(ds) |->
            [date |-> ds[i],
             traffic |-> SumSeq(TrafficOf(OnDate(rows, ds[i]))),
             cookies_supported |-> SumSeq(CookiesOf(OnDate(rows, ds[i])))]]

(* frame['cookie_support_pct'] = (frame.cookies_supported / frame.traffic) * 100 *)
WithCookieSupportPct(groups) ==
    [i \in 1..Len(groups) |->
        [date |-> groups[i].date,
         traffic |-> groups[i].traffic,
         cookies_supported |-> groups[i].cookies_supported,
         cookie_support_pct |->
             Pct(F(groups[i].cookies_supported), F(groups[i].traffic))]]

(* Lines 30-31. *)
ByDay(rows) == WithCookieSupportPct(GroupByDate(rows))

(* Line 28: df.groupby('browser_name').sum().reset_index(), names ascending. *)
GroupByBrowser(rows) ==
    LET names == SortNames({rows[i].browser_name : i \in 1..Len(rows)})
        Of(b) == Where(rows, {r \in Range(rows) : r.browser_name = b})
    IN  [i \in 1..Len(names) |->
            [browser_name |-> names[i],
             traffic |-> SumSeq(TrafficOf(Of(names[i]))),
             cookies_supported |-> SumSeq(CookiesOf(Of(names[i])))]]

(* sort_values(by='traffic', ascending=False): nargsort reverses the rows,  *)
(* argsorts them ascending and reverses the result.  With a stable argsort *)
(* rows that tie on traffic keep the order they came in; ties = "reversed" *)
(* is the other extreme, where they come out in reverse.                   *)
TieOrders == {"stable", "reversed"}

RECURSIVE InsertDesc(_, _, _)
InsertDesc(x, s, ties) ==
    IF s = <<>> THEN <<x>>
    ELSE IF \/ Head(s).traffic < x.traffic
            \/ Head(s).traffic = x.traffic /\ ties = "stable"
         THEN <<x>> \o s
    ELSE <<Head(s)>> \o InsertDesc(x, Tail(s), ties)

RECURSIVE SortValuesDesc(_, _)
SortValuesDesc(s, ties) ==
    IF s = <<>> THEN <<>>
    ELSE InsertDesc(Head(s), SortValuesDesc(Tail(s), ties), ties)

(* .head(14) *)
HeadCount == 14

HeadOf(s) == SubSeq(s, 1, IF Len(s) < HeadCount THEN Len(s) ELSE HeadCount)

(* Mutant of TopBrowsers: the smallest browsers first. *)
TopBrowsersAscending(rows, ties) ==
    LET all == SortValuesDesc(GroupByBrowser(rows), ties)
        top == HeadOf([i \in 1..Len(all) |-> all[Len(all) + 1 - i]])
    IN  [i \in 1..Len(top) |-> top[i].browser_name]

(* Line 28. *)
TopBrowsers(rows, ties) ==
    LET top == HeadOf(SortValuesDesc(GroupByBrowser(rows), ties))
    IN  [i \in 1..Len(top) |-> top[i].browser_name]

(* DataFrame.sum(axis=1) of one row's cells: NaN cells are skipped. *)
RECURSIVE SumSkipNaN(_)
SumSkipNaN(cells) ==
    IF cells = <<>> THEN F(0)
    ELSE IF IsNaN(Head(cells)) THEN SumSkipNaN(Tail(cells))
    ELSE FAdd(Head(cells), SumSkipNaN(Tail(cells)))

(* pd.pivot_table(rows, values='traffic', index=['date'], columns=[column],  *)
(* aggfunc=np.sum): a cell with no rows is NaN.                              *)
PivotTable(rows, column) ==
    LET cols == SortNames({rows[i][column] : i \in 1..Len(rows)})
        Cell(d, c) ==
            LET Test(r) == r.date = d /\ r[column] = c
                g == Where(rows, {r \in Range(rows) : Test(r)})
            IN  IF g = <<>> THEN NaN ELSE F(SumSeq(TrafficOf(g)))
    IN  [index |-> SortInts(DatesOf(rows)),
         columns |-> cols,
         data |-> [d \in DatesOf(rows) |-> [c \in Range(cols) |-> Cell(d, c)]]]

HasColumn(pv, c) == c \in Range(pv.columns)

(* pv[name] = vals: a new column at the right. *)
SetColumn(pv, name, vals) ==
    [index |-> pv.index,
     columns |-> Append(pv.columns, name),
     data |-> [d \in DOMAIN pv.data |->
                  [c \in Range(pv.columns) \cup {name} |->
                      IF c = name THEN vals[d] ELSE pv.data[d][c]]]]

(* pv['total'] = pv.sum(axis=1) *)
WithTotal(pv) ==
    SetColumn(pv, "total",
        [d \in DOMAIN pv.data |->
            SumSkipNaN([i \in 1..Len(pv.columns) |-> pv.data[d][pv.columns[i]]])])

InTopDevices(r) == IsIn(r.device_type, top_devices)

(* Mutant of ByDeviceTotal: the device filter of line 33 left out. *)
ByDeviceTotalAllDevices(rows) == WithTotal(PivotTable(rows, "device_type"))

(* Lines 33-35: by_device as it stands once 'total' is set. *)
ByDeviceTotal(rows) ==
    WithTotal(PivotTable(Where(rows, {r \in Range(rows) : InTopDevices(r)}),
                         "device_type"))

(* Line 36: by_device.mobile + by_device.tablet (NaN + x is NaN). *)
WithMobileTablet(pv) ==
    SetColumn(pv, "mobile_tablet",
        [d \in DOMAIN pv.data |-> FAdd(pv.data[d]["mobile"], pv.data[d]["tablet"])])

(* Line 37. *)
WithMobileTabletPct(pv) ==
    SetColumn(pv, "mobile_tablet_pct",
        [d \in DOMAIN pv.data |->
            Pct(pv.data[d]["mobile_tablet"], pv.data[d]["total"])])

(* Line 36 reads the attributes mobile and tablet: AttributeError without the column. *)
Line36Raises(pv) == ~ (HasColumn(pv, "mobile") /\ HasColumn(pv, "tablet"))

(* Lines 39-41. *)
TotalByDevice(rows) ==
    LET kept == Where(rows, {r \in Range(rows) : InTopDevices(r)})
        names == SortNames({kept[i].device_type : i \in 1..Len(kept)})
        Of(v) == Where(kept, {r \in Range(kept) : r.device_type = v})
    IN  [i \in 1..Len(names) |->
            [device_type |-> names[i],
             traffic |-> SumSeq(TrafficOf(Of(names[i]))),
             cookies_supported |-> SumSeq(CookiesOf(Of(names[i]))),
             cookie_support_pct |->
                 Pct(F(SumSeq(CookiesOf(Of(names[i])))),
                     F(SumSeq(TrafficOf(Of(names[i])))))]]

(* Lines 43-44. *)
ByBrowserTotal(rows) == WithTotal(PivotTable(rows, "browser_name"))

(* Line 45 reads the attribute Chrome: AttributeError without the column. *)
Line45Raises(pv) == ~ HasColumn(pv, "Chrome")

(* Line 45. *)
WithChromePct(pv) ==
    SetColumn(pv, "chrome_pct",
        [d \in DOMAIN pv.data |-> Pct(pv.data[d]["Chrome"], pv.data[d]["total"])])

(* Mutant of FilteredDf: the browser mask of line 48 left out. *)
FilteredDfDevicesOnly(rows, top) ==
    LET Test(r) == IsIn(r.device_type, top_devices) IN Where(rows, {r \in Range(rows) : Test(r)})

(* Lines 47-48. *)
FilteredDf(rows, top) ==
    LET Test(r) == IsIn(r.device_type, top_devices) /\ IsIn(r.browser_name, top)
    IN  Where(rows, {r \in Range(rows) : Test(r)})

(***************************************************************************)
(* The Filter Engine, lines 50-55.  `if device_type:` is Python's truth   *)
(* test: None and the empty string both skip the filter.                   *)
(***************************************************************************)
Truthy(v) == v # None /\ v # ""

filter_df_by_options(rows, device_type, browser_name) ==
    LET ByDev(r) == r.device_type = device_type
        ByBr(r) == r.browser_name = browser_name
        df1 == IF Truthy(device_type) THEN Where(rows, {r \in Range(rows) : ByDev(r)}) ELSE rows
    IN  IF Truthy(browser_name) THEN Where(df1, {r \in Range(df1) : ByBr(r)}) ELSE df1

(***************************************************************************)
(* The Trend Estimator, lines 61-67.  A date is a day count from           *)
(* 2021-01-01, whose proleptic Gregorian ordinal is 737791.                *)
(***************************************************************************)
Epoch == 737791

toordinal(d) == Epoch + d

RECURSIVE FSum(_)
FSum(v) == IF v = <<>> THEN F(0) ELSE FAdd(Head(v), FSum(Tail(v)))

(* np.mean *)
FMean(v) == FDiv(FSum(v), F(Len(v)))

(* np.cov(a, b, bias=1): the mean of the products of the deviations. *)
Cov(a, amean, b, bmean) ==
    FMean([i \in 1..Len(a) |-> FMul(FSub(a[i], amean), FSub(b[i], bmean))])

(* slope = ssxym / ssxm; intercept = ymean - slope * xmean.  The intercept *)
(* is kept as its two terms: its value at ordinals of this size has a      *)
(* numerator beyond TLC's integers.                                        *)
FitLine(slope, xmean, ymean) ==
    [exc |-> None, slope |-> slope, xmean |-> xmean, ymean |-> ymean]

LeastSquares(x, xmean, y, ymean) ==
    FitLine(FDiv(Cov(x, xmean, y, ymean), Cov(x, xmean, x, xmean)), xmean, ymean)

FloatSeq(x) == [i \in 1..Len(x) |-> F(x[i])]

(* scipy.stats.linregress(x, y), x integers and y floats: empty inputs     *)
(* raise ValueError; otherwise the least-squares line, where a zero        *)
(* variance of x gives 0/0 = NaN for the slope and raises nothing.         *)
linregress(x, y) ==
    IF Len(x) = 0 \/ Len(y) = 0
    THEN [exc |-> "ValueError", slope |-> NaN, xmean |-> NaN, ymean |-> NaN]
    ELSE LeastSquares(FloatSeq(x), FMean(FloatSeq(x)), y, FMean(y))

(* g(x) = slope * x + intercept over the ordinals, evaluated as            *)
(* ymean + slope * (x - xmean): the same real number, and NaN whenever     *)
(* the slope is.                                                           *)
FittedValues(fit, x) ==
    IF fit.exc # None THEN [exc |-> fit.exc, vals |-> <<>>]
    ELSE [exc |-> None,
          vals |-> [i \in 1..Len(x) |->
                       FAdd(fit.ymean,
                            FMul(fit.slope, FSub(F(x[i]), fit.xmean)))]]

Ordinals(dates) == [i \in 1..Len(dates) |-> toordinal(dates[i])]

(* Lines 61-67: the exception linregress raises, or the fitted values. *)
line_of_best_fit(dates, y) ==
    FittedValues(linregress(Ordinals(dates), y), Ordinals(dates))

DateColumn(frame) == [i \in 1..Len(frame) |-> frame[i].date]

PctColumn(frame) == [i \in 1..Len(frame) |-> frame[i].cookie_support_pct]

(***************************************************************************)
(* One run of the script with the table rows and the two widget values.    *)
(* No statement of the script catches an exception: the first one raised   *)
(* ends the run, and the globals after its line stay unassigned.           *)
(***************************************************************************)
NoException == [exc |-> None, line |-> 0]

Raise(g, exc, line) == [g EXCEPT !.exception = [exc |-> exc, line |-> line]]

Raised(g) == g.exception.line # 0

(* Mutant of DfAfterRun: the filter rebinding the global table. *)
DfAfterRunRebound(rows, device_type, browser_name) ==
    filter_df_by_options(rows, device_type, browser_name)

(* The global df after a run: the parameter df of filter_df_by_options is  *)
(* local, and no statement assigns into the loaded table.                  *)
DfAfterRun(rows, device_type, browser_name) == rows

(* Lines 25-31: the cached table, top_browsers and by_day. *)
Lines25To31(rows, ties) ==
    [df |-> rows,
     top_browsers |-> TopBrowsers(rows, ties),
     by_day |-> ByDay(rows),
     by_device |-> Unset,
     total_by_device |-> Unset,
     by_browser |-> Unset,
     filtered_df |-> Unset,
     best_fit_cookie_support |-> Unset,
     best_fit_mobile |-> Unset,
     slice_dice_df |-> Unset,
     best_fit_slice_dice |-> Unset,
     exception |-> NoException]

Lines33To35(g) == [g EXCEPT !.by_device = ByDeviceTotal(g.df)]

Lines36To37(g) ==
    IF Line36Raises(g.by_device) THEN Raise(g, "AttributeError", 36)
    ELSE [g EXCEPT !.by_device = WithMobileTabletPct(WithMobileTablet(g.by_device))]

Lines39To44(g) ==
    IF Raised(g) THEN g
    ELSE [g EXCEPT !.total_by_device = TotalByDevice(g.df),
                   !.by_browser = ByBrowserTotal(g.df)]

Lines45To48(g) ==
    IF Raised(g) THEN g
    ELSE IF Line45Raises(g.by_browser) THEN Raise(g, "AttributeError", 45)
    ELSE [g EXCEPT !.by_browser = WithChromePct(g.by_browser),
                   !.filtered_df = FilteredDf(g.df, g.top_browsers)]

(* best_fit_cookie_support = line_of_best_fit(...): an exception ends the run. *)
Line128Fit(g, fit) ==
    IF fit.exc # None THEN Raise(g, fit.exc, 128)
    ELSE [g EXCEPT !.best_fit_cookie_support = fit.vals]

Line154Fit(g, fit) ==
    IF fit.exc # None THEN Raise(g, fit.exc, 154)
    ELSE [g EXCEPT !.best_fit_mobile = fit.vals]

Line199Fit(g, fit) ==
    IF fit.exc # None THEN Raise(g, fit.exc, 199)
    ELSE [g EXCEPT !.best_fit_slice_dice = fit.vals]

Line128(g) ==
    IF Raised(g) THEN g
    ELSE Line128Fit(g, line_of_best_fit(DateColumn(g.by_day), PctColumn(g.by_day)))

(* Line 154: by_device.index and by_device.mobile_tablet_pct as lists. *)
MobileTabletPctColumn(pv) ==
    [i \in 1..Len(pv.index) |-> pv.data[pv.index[i]]["mobile_tablet_pct"]]

Line154(g) ==
    IF Raised(g) THEN g
    ELSE Line154Fit(g, line_of_best_fit(g.by_device.index,
                                        MobileTabletPctColumn(g.by_device)))

(* Lines 195-197. *)
SliceDice(filtered, device_type, browser_name) ==
    ByDay(filter_df_by_options(filtered, device_type, browser_name))

Lines195To197(g, device_type, browser_name) ==
    IF Raised(g) THEN g
    ELSE [g EXCEPT !.slice_dice_df =
                       SliceDice(g.filtered_df, device_type, browser_name),
                   !.df = DfAfterRun(g.df, device_type, browser_name)]

Line199(g) ==
    IF Raised(g) THEN g
    ELSE Line199Fit(g, line_of_best_fit(DateColumn(g.slice_dice_df),
                                        PctColumn(g.slice_dice_df)))

(* The whole script, top to bottom. *)
Script(rows, device_type, browser_name, ties) ==
    Line199(Lines195To197(
        Line154(Line128(Lines45To48(Lines39To44(
            Lines36To37(Lines33To35(Lines25To31(rows, ties))))))),
        device_type, browser_name))

(* The globals take the values the run of Script left. *)
RunLeaves(g) ==
    /\ df = g.df
    /\ top_browsers = g.top_browsers
    /\ by_day = g.by_day
    /\ by_device = g.by_device
    /\ total_by_device = g.total_by_device
    /\ by_browser = g.by_browser
    /\ filtered_df = g.filtered_df
    /\ best_fit_cookie_support = g.best_fit_cookie_support
    /\ best_fit_mobile = g.best_fit_mobile
    /\ slice_dice_df = g.slice_dice_df
    /\ best_fit_slice_dice = g.best_fit_slice_dice
    /\ exception = g.exception

RunSets(g) ==
    /\ df' = g.df
    /\ top_browsers' = g.top_browsers
    /\ by_day' = g.by_day
    /\ by_device' = g.by_device
    /\ total_by_device' = g.total_by_device
    /\ by_browser' = g.by_browser
    /\ filtered_df' = g.filtered_df
    /\ best_fit_cookie_support' = g.best_fit_cookie_support
    /\ best_fit_mobile' = g.best_fit_mobile
    /\ slice_dice_df' = g.slice_dice_df
    /\ best_fit_slice_dice' = g.best_fit_slice_dice
    /\ exception' = g.exception

(***************************************************************************)
(* The tables the model loads.                                             *)
(***************************************************************************)
SeqsUpTo(S, n) == UNION {[1..k -> S] : k \in 0..n}

(* Thirteen browsers, Chrome on every device type and the others on one.   *)
BaseBrowsers == <<"Amazon Silk", "Android", "Chrome Mobile", "Edge",
                  "Facebook", "Firefox", "IE", "Instagram", "Mobile Safari",
                  "Safari", "Samsung Internet", "UC Browser">>

BaseTable ==
    <<Row(0, "desktop", "Chrome", 1, 1), Row(0, "mobile", "Chrome", 1, 0),
      Row(1, "mobile", "Chrome", 1, 1), Row(1, "tablet", "Chrome", 1, 0)>>
    \o [i \in 1..Len(BaseBrowsers) |->
           Row(i % 2, top_devices[(i % 3) + 1], BaseBrowsers[i], 1, i % 2)]

(* Rows of a fourteenth and a fifteenth browser, on and off the known devices. *)
ExtraRows ==
    {Row(1, "mobile", "Opera", 1, 0), Row(1, "mobile", "Yandex", 1, 1),
     Row(1, "other", "Yandex", 1, 0)}

SessionTables == {BaseTable \o extra : extra \in SeqsUpTo(ExtraRows, MaxRows)}

(* Small tables of any shape. *)
Dates == {0, 1}

Devices == {"desktop", "mobile", "tablet", "other"}

Browsers == {"Chrome", "Safari"}

Counts == {0, 1}

Rows == {Row(d, dev, br, t, c) :
            d \in Dates, dev \in Devices, br \in Browsers,
            t \in Counts, c \in Counts}

Datasets == SeqsUpTo(Rows, MaxRows)

NoCall == [fn |-> "none"]

(***************************************************************************)
(* The session: the page is loaded, then the user works the select boxes.  *)
(***************************************************************************)

(* The first run of a session: both select boxes show None (lines 185-191). *)
Init ==
    /\ \E rows \in SessionTables, ties \in TieOrders :
          /\ argsort_ties = ties
          /\ RunLeaves(Script(rows, None, None, ties))
    /\ device_option = None
    /\ browser_option = None
    /\ call = NoCall

(* The latest run completed the statement at `line`. *)
Done(line) ==
    /\ exception.exc # "not run"
    /\ exception.line = 0 \/ exception.line > line

(* The select boxes exist once a run got past line 191. *)
WidgetsShown == Done(191)

(* The user picks another device type: the script runs again (line 185). *)
SelectDevice(d) ==
    /\ WidgetsShown
    /\ d # device_option
    /\ device_option' = d
    /\ RunSets(Script(df, d, browser_option, argsort_ties))
    /\ UNCHANGED <<browser_option, call, argsort_ties>>

(* The user picks another browser: the script runs again (line 189). *)
SelectBrowser(b) ==
    /\ WidgetsShown
    /\ b # browser_option
    /\ browser_option' = b
    /\ RunSets(Script(df, device_option, b, argsort_ties))
    /\ UNCHANGED <<device_option, call, argsort_ties>>

(* The script runs again with the widgets as they are. *)
Rerun ==
    /\ RunSets(Script(df, device_option, browser_option, argsort_ties))
    /\ UNCHANGED <<device_option, browser_option, call, argsort_ties>>

Next ==
    \/ \E d \in {None} \cup Range(top_devices) : SelectDevice(d)
    \/ \E b \in {None} \cup Range(top_browsers) : SelectBrowser(b)
    \/ Rerun

Spec == Init /\ [][Next]_vars

(***************************************************************************)
(* The Aggregator on its own: a table is loaded (line 25), then the page   *)
(* runs once with both select boxes at None.                               *)
(***************************************************************************)
NotRun ==
    [df |-> Unset, top_browsers |-> Unset, by_day |-> Unset,
     by_device |-> Unset, total_by_device |-> Unset, by_browser |-> Unset,
     filtered_df |-> Unset, best_fit_cookie_support |-> Unset,
     best_fit_mobile |-> Unset, slice_dice_df |-> Unset,
     best_fit_slice_dice |-> Unset, exception |-> [exc |-> "not run", line |-> 0]]

InitLoaded ==
    /\ \E rows \in Datasets \cup SessionTables :
          RunLeaves([NotRun EXCEPT !.df = rows])
    /\ device_option = None
    /\ browser_option = None
    /\ call = NoCall
    /\ argsort_ties \in TieOrders

FirstRun ==
    /\ exception.exc = "not run"
    /\ RunSets(Script(df, None, None, argsort_ties))
    /\ UNCHANGED <<device_option, browser_option, call, argsort_ties>>

SpecAggregate == InitLoaded /\ [][FirstRun]_vars

(***************************************************************************)
(* filter_df_by_options on its own: any table, any two arguments.          *)
(***************************************************************************)
FilterRows ==
    {Row(0, dev, br, t, 0) :
        dev \in {"desktop", "mobile"}, br \in {"Chrome", "Safari"}, t \in Counts}

DeviceArgs == {None, "", "desktop", "mobile"}

BrowserArgs == {None, "", "Chrome", "Safari"}

InitFilter ==
    /\ RunLeaves(NotRun)
    /\ device_option = None
    /\ browser_option = None
    /\ argsort_ties \in TieOrders
    /\ \E t \in SeqsUpTo(FilterRows, MaxRows), d \in DeviceArgs, b \in BrowserArgs :
          call = [fn |-> "filter_df_by_options", df |-> t, device_type |-> d,
                  browser_name |-> b, returned |-> FALSE, result |-> Unset]

CallFilter ==
    /\ call.fn = "filter_df_by_options"
    /\ ~ call.returned
    /\ call' = [call EXCEPT
                   !.returned = TRUE,
                   !.result = filter_df_by_options(call.df, call.device_type,
                                                   call.browser_name)]
    /\ UNCHANGED <<df, device_option, browser_option, top_browsers, by_day,
                   by_device, total_by_device, by_browser, filtered_df,
                   best_fit_cookie_support, best_fit_mobile, slice_dice_df,
                   best_fit_slice_dice, exception, argsort_ties>>

SpecFilter == InitFilter /\ [][CallFilter]_vars

(***************************************************************************)
(* line_of_best_fit on its own: up to MaxPoints points on distinct dates   *)
(* in ascending order, as every caller passes them.                        *)
(***************************************************************************)
FitDates == 0..(MaxPoints - 1)

FitValues == {F(0), F(50), F(100), NaN, Inf}

InitFit ==
    /\ RunLeaves(NotRun)
    /\ device_option = None
    /\ browser_option = None
    /\ argsort_ties \in TieOrders
    /\ \E D \in SUBSET FitDates :
          \E y \in [1..Cardinality(D) -> FitValues] :
              call = [fn |-> "line_of_best_fit", dates |-> SortInts(D), y |-> y,
                      returned |-> FALSE, exc |-> None, result |-> Unset]

CallFit ==
    /\ call.fn = "line_of_best_fit"
    /\ ~ call.returned
    /\ call' = [call EXCEPT
                   !.returned = TRUE,
                   !.exc = line_of_best_fit(call.dates, call.y).exc,
                   !.result = line_of_best_fit(call.dates, call.y).vals]
    /\ UNCHANGED <<df, device_option, browser_option, top_browsers, by_day,
                   by_device, total_by_device, by_browser, filtered_df,
                   best_fit_cookie_support, best_fit_mobile, slice_dice_df,
                   best_fit_slice_dice, exception, argsort_ties>>

SpecFit == InitFit /\ [][CallFit]_vars

(***************************************************************************)
(* Properties.                                                             *)
(***************************************************************************)
KnownDevices == {"desktop", "mobile", "tablet"}

(* The traffic, and the cookie count, of the rows of a table that are in keep. *)
TrafficWhere(rows, keep) ==
    SumSeq([i \in 1..Len(rows) |-> IF rows[i] \in keep THEN rows[i].traffic ELSE 0])

CookiesWhere(rows, keep) ==
    SumSeq([i \in 1..Len(rows) |->
               IF rows[i] \in keep THEN rows[i].cookies_supported ELSE 0])

OnKnownDevice(r) == r.device_type \in KnownDevices

PickedBySelection(r) ==
    /\ device_option # None => r.device_type = device_option
    /\ browser_option # None => r.browser_name = browser_option

(* C2: when the selection matches no row of filtered_df, the by-date       *)
(* aggregation yields an empty series and the run is not ended by an       *)
(* exception of the trend fit.                                             *)
C2_EmptySelectionIsHandled ==
    (Done(48) /\ \A i \in 1..Len(filtered_df) : ~ PickedBySelection(filtered_df[i]))
        => Done(197) /\ slice_dice_df = <<>> /\ exception = NoException

(* C3: line_of_best_fit with fewer than 2 points fails; it returns no list *)
(* of fitted values.                                                       *)
C3_FewerThanTwoPointsFails ==
    (call.fn = "line_of_best_fit" /\ call.returned /\ Len(call.dates) < 2)
        => call.exc # None

(* C4 as stated: a group whose traffic is 0 has cookie_support_pct NaN,    *)
(* whatever its cookies_supported.                                         *)
ZeroTrafficIsNaN(frame) ==
    \A i \in 1..Len(frame) :
        frame[i].traffic = 0 => IsNaN(frame[i].cookie_support_pct)

C4_ZeroTrafficIsNaN ==
    /\ Done(31) => ZeroTrafficIsNaN(by_day)
    /\ Done(41) => ZeroTrafficIsNaN(total_by_device)
    /\ Done(197) => ZeroTrafficIsNaN(slice_dice_df)

(* C4 amended: a group whose traffic is 0 has a cookie_support_pct that is *)
(* no number: NaN when its cookies_supported is 0 too, +infinity when      *)
(* cookies_supported is positive; computing it never ends the run.         *)
ZeroTrafficIsNoNumber(frame) ==
    \A i \in 1..Len(frame) :
        frame[i].traffic = 0 =>
            frame[i].cookie_support_pct =
                IF frame[i].cookies_supported = 0 THEN NaN ELSE Inf

C4_ZeroTrafficIsNoNumber ==
    /\ exception.line \notin {31, 41, 197}
    /\ Done(31) => ZeroTrafficIsNoNumber(by_day)
    /\ Done(41) => ZeroTrafficIsNoNumber(total_by_device)
    /\ Done(197) => ZeroTrafficIsNoNumber(slice_dice_df)

C4_Witness ==
    /\ Done(197)
    /\ \E i, j \in 1..Len(by_day) :
          /\ by_day[i].traffic = 0 /\ by_day[i].cookies_supported = 0
          /\ by_day[j].traffic = 0 /\ by_day[j].cookies_supported > 0
    /\ \E i \in 1..Len(total_by_device) : total_by_device[i].traffic = 0
    /\ \E i \in 1..Len(slice_dice_df) : slice_dice_df[i].traffic = 0

(* The sum of a pivot's column over its dates, and of its cells (NaN skipped). *)
ColumnSum(pv, c) == FSum([i \in 1..Len(pv.index) |-> pv.data[pv.index[i]][c]])

CellSum(pv, cols) ==
    FSum([i \in 1..Len(pv.index) |->
             SumSkipNaN([j \in 1..Len(cols) |-> pv.data[pv.index[i]][cols[j]]])])

(* The columns np.sum filled: those before the derived ones. *)
ValueColumns(pv) ==
    LET Test(c) == c \notin {"total", "mobile_tablet", "mobile_tablet_pct", "chrome_pct"}
    IN  SelectSeq(pv.columns, Test)

GroupingsSumTo(byDate, byDevice) ==
    /\ Done(31) => SumSeq(TrafficOf(by_day)) = byDate
    /\ Done(35) => /\ ColumnSum(by_device, "total") = F(byDevice)
                   /\ CellSum(by_device, ValueColumns(by_device)) = F(byDevice)
    /\ Done(41) => SumSeq(TrafficOf(total_by_device)) = byDevice
    /\ Done(44) => /\ ColumnSum(by_browser, "total") = F(byDate)
                   /\ CellSum(by_browser, ValueColumns(by_browser)) = F(byDate)

(* C5 as stated: in every grouping the per-group traffic sums to the       *)
(* traffic of the whole Dataset.                                           *)
C5_GroupsSumToDataset ==
    GroupingsSumTo(TrafficWhere(df, Range(df)), TrafficWhere(df, Range(df)))

(* C5 amended: the by-date and by-(date, browser) groupings sum to the     *)
(* traffic of the whole Dataset; the two device groupings sum to the       *)
(* traffic of its rows whose device_type is desktop, mobile or tablet.     *)
C5_GroupsSumToGroupedRows ==
    GroupingsSumTo(TrafficWhere(df, Range(df)), TrafficWhere(df, {r \in Range(df) : OnKnownDevice(r)}))

C5_Witness ==
    /\ Done(44)
    /\ TrafficWhere(df, {r \in Range(df) : OnKnownDevice(r)}) < TrafficWhere(df, Range(df))
    /\ Len(total_by_device) = 3

(* C6: by_day has exactly one entry per distinct date of the Dataset, and  *)
(* the entry's traffic and cookies_supported are the sums over all rows of *)
(* that date, rows sharing date, device_type and browser_name included.    *)
C6_DailySeriesSumsEachDate ==
    Done(31) =>
        /\ Len(by_day) = Cardinality({df[i].date : i \in 1..Len(df)})
        /\ {by_day[i].date : i \in 1..Len(by_day)} = {df[i].date : i \in 1..Len(df)}
        /\ \A i \in 1..Len(by_day) :
              LET SameDate(r) == r.date = by_day[i].date
              IN  /\ by_day[i].traffic = TrafficWhere(df, {r \in Range(df) : SameDate(r)})
                  /\ by_day[i].cookies_supported = CookiesWhere(df, {r \in Range(df) : SameDate(r)})

C6_Witness ==
    /\ Done(31)
    /\ Len(by_day) = 1
    /\ by_day[1].traffic = 2
    /\ \E i, j \in 1..Len(df) :
          /\ i < j
          /\ df[i].device_type = df[j].device_type
          /\ df[i].browser_name = df[j].browser_name
          /\ df[i].cookies_supported # df[j].cookies_supported

(* The traffic of browser b over the whole Dataset, every device type included. *)
BrowserTraffic(b) ==
    TrafficWhere(df, {r \in Range(df) : r.browser_name = b})

BrowsersOfDataset == {df[i].browser_name : i \in 1..Len(df)}

TopBrowsersAreTheLargest ==
    Done(28) =>
        /\ Range(top_browsers) \subseteq BrowsersOfDataset
        /\ Len(top_browsers) =
               IF Cardinality(BrowsersOfDataset) < 14
               THEN Cardinality(BrowsersOfDataset) ELSE 14
        /\ \A i, j \in 1..Len(top_browsers) :
              i < j => /\ top_browsers[i] # top_browsers[j]
                       /\ BrowserTraffic(top_browsers[i]) >= BrowserTraffic(top_browsers[j])
        /\ \A b \in BrowsersOfDataset \ Range(top_browsers) :
              \A i \in 1..Len(top_browsers) :
                  BrowserTraffic(top_browsers[i]) >= BrowserTraffic(b)

(* C7: top_browsers is the first 14 distinct browser names in descending   *)
(* order of traffic summed over the entire Dataset (all names when there   *)
(* are fewer), and a rerun on the same Dataset yields the same names in    *)
(* the same order, ties included.                                          *)
C7_TopBrowsersStable ==
    /\ []TopBrowsersAreTheLargest
    /\ [][top_browsers' = top_browsers]_vars

C7_Witness ==
    /\ Done(28)
    /\ device_option # None \/ browser_option # None
    /\ Len(top_browsers) = 14
    /\ \E b \in BrowsersOfDataset \ Range(top_browsers) :
          /\ BrowserTraffic(b) = BrowserTraffic(top_browsers[14])
          /\ ~ \E i \in 1..Len(df) : df[i].browser_name = b /\ OnKnownDevice(df[i])

(* The rows of the Dataset that may contribute to the filtered series. *)
Contributes(r) ==
    /\ r.device_type \in KnownDevices
    /\ r.browser_name \in Range(top_browsers)
    /\ PickedBySelection(r)

(* C8: the filtered series is made of exactly the rows whose device_type   *)
(* is desktop, mobile or tablet, whose browser_name is in top_browsers and *)
(* which match the selected device type and browser; no other row          *)
(* contributes to it.                                                      *)
C8_SeriesOfContributingRows ==
    Done(197) =>
        /\ {slice_dice_df[i].date : i \in 1..Len(slice_dice_df)} =
               {df[i].date : i \in {k \in 1..Len(df) : Contributes(df[k])}}
        /\ \A i \in 1..Len(slice_dice_df) :
              LET Its(r) == Contributes(r) /\ r.date = slice_dice_df[i].date
              IN  /\ slice_dice_df[i].traffic = TrafficWhere(df, {r \in Range(df) : Its(r)})
                  /\ slice_dice_df[i].cookies_supported = CookiesWhere(df, {r \in Range(df) : Its(r)})

C8_Witness ==
    /\ Done(197)
    /\ device_option # None
    /\ slice_dice_df # <<>>
    /\ \E i, j \in 1..Len(df) :
          /\ df[i].device_type = device_option
          /\ df[i].browser_name \notin Range(top_browsers)
          /\ df[j].device_type \notin KnownDevices
          /\ df[j].browser_name \in Range(top_browsers)

(* The traffic of one date and device type in the Dataset: 0 without rows. *)
DeviceTraffic(d, dev) ==
    TrafficWhere(df, {r \in Range(df) : r.date = d /\ r.device_type = dev})

(* C9: for every date of by_device, total is the date's desktop + mobile + *)
(* tablet traffic, mobile_tablet its mobile + tablet traffic and           *)
(* mobile_tablet_pct is 100 * mobile_tablet / total, a device type without *)
(* rows on the date counting 0.                                            *)
C9_DevicePivotColumns ==
    Done(37) =>
        \A d \in DOMAIN by_device.data :
            LET mobile_tablet == DeviceTraffic(d, "mobile") + DeviceTraffic(d, "tablet")
                total == DeviceTraffic(d, "desktop") + mobile_tablet
            IN  /\ by_device.data[d]["total"] = F(total)
                /\ by_device.data[d]["mobile_tablet"] = F(mobile_tablet)
                /\ by_device.data[d]["mobile_tablet_pct"] =
                       FMul(FDiv(F(mobile_tablet), F(total)), F(100))

=============================================================================
